---- MODULE Spec2Model ----
(***************************************************************************)
(* Rate limiters of the gateway: fixed window, sliding window log, leaky   *)
(* bucket and token bucket (src/src/middleware).  Each limiter is an       *)
(* Express middleware that reads the client key from the request, reads    *)
(* the clock once (Date.now()), updates its own per-client Map and either  *)
(* calls next() or answers 429 / 400.                                      *)
(*                                                                         *)
(* Time is in milliseconds.  The clock is the variable now; every handler  *)
(* call reads a clock value t >= now and the clock becomes t.              *)
(***************************************************************************)
EXTENDS Integers, Sequences, FiniteSets, TLC

VARIABLES
    now,          \* last value Date.now() returned
    fwClients,    \* fixedWindow.ts: clients Map, key -> [count, windowStart]
    swClients,    \* slidingWindow.ts (log): clients Map, key -> timestamps
    lbClients,    \* leaky bucket: clients Map, key -> [queue, lastLeak]
    tbClients,    \* token bucket: clients Map, key -> [tokens, lastRefill]
    last,         \* observation of the last handler call: key, time, outcome
    admitted,     \* observation: per key, the times of the calls that reached next()
    fullSince     \* observation: per key, the time the leaky bucket became full

\* the load balancer createLoadBalancer(strategy, servers, weights) returned
VARIABLES
    strategy,     \* the strategy name given to createLoadBalancer
    servers,      \* the server list
    ws,           \* the weights in use (the given ones, or 1 for every server)
    idx,          \* round-robin and fallback: let idx
    current,      \* weighted-round-robin: const current
    counts,       \* (weighted-)least-connections: const counts, a Map
    vhash,        \* consistent-hash: fnv1aHash on the virtual node keys
    ring,         \* consistent-hash: const ring, sorted
    sel,          \* observation of the last pickTarget / release call
    picks,        \* observation: the targets pickTarget returned, in order
    flights,      \* the gateway's requests that are being proxied
    workers       \* concurrent executions of the fixed-window handler, each between
                  \* its read of the record and its write

limVars == << now, fwClients, swClients, lbClients, tbClients, last, admitted, fullSince >>
balVars == << strategy, servers, ws, idx, current, counts, vhash, ring, sel, picks >>
vars == << limVars, balVars, flights, workers >>

(***************************************************************************)
(* Requests.  A request carries an X-Client-ID header and a peer address;  *)
(* "" stands for an absent (undefined) or empty value, both falsy.         *)
(***************************************************************************)
Headers == {"", "A"}
Ips == {"", "B"}
Requests == [header : Headers, ip : Ips]

\* req.header("X-Client-ID") || req.ip
ClientKey_AddressFirst(req) == IF req.ip # "" THEN req.ip ELSE req.header

ClientKey(req) == IF req.header # "" THEN req.header ELSE req.ip

Keys == {ClientKey(r) : r \in Requests} \ {""}

EmptyMap == << >>
Has(map, k) == k \in DOMAIN map
MapSet_Replace(map, k, v) == (k :> v)

MapSet(map, k, v) == (k :> v) @@ map

Observe(k, t, outcome) == [client |-> k, time |-> t, outcome |-> outcome]
NoLogs == [k \in Keys |-> << >>]
NoTimes == [k \in Keys |-> -1]

\* number of logged admissions of key k at or after time t
AdmittedSince(k, t) == Cardinality({i \in DOMAIN admitted[k] : admitted[k][i] >= t})

Max(a, b) == IF a >= b THEN a ELSE b
Min(a, b) == IF a <= b THEN a ELSE b

(***************************************************************************)
(* Load balancer (src/unnamed/part_000): construction                      *)
(*                                                                         *)
(* Strings that are hashed are sequences of UTF-16 code units.  A 32-bit   *)
(* unsigned hash is the record [hi, lo] of its two 16-bit halves.          *)
(***************************************************************************)
Strategies == {"round-robin", "random", "least-connections", "weighted-round-robin",
               "weighted-least-connections", "ip-hash", "consistent-hash"}

\* the code units of the strings the model hashes
StrChars(str) ==
    CASE str = "" -> << >>
      [] str = "A" -> << 65 >>
      [] str = "B" -> << 66 >>
      [] str = "C" -> << 67 >>
      [] OTHER -> << 88 >>

RECURSIVE DecimalChars(_)
\* the digits of `${v}`
DecimalChars(v) ==
    IF v < 10 THEN << 48 + v >> ELSE Append(DecimalChars(v \div 10), 48 + (v % 10))

RECURSIVE XorBits(_, _, _)
\* a ^ b on the lowest n bits
XorBits(a, b, n) ==
    IF n = 0 THEN 0
    ELSE (((a % 2) + (b % 2)) % 2) + 2 * XorBits(a \div 2, b \div 2, n - 1)

FNV_OFFSET_HI == 33052
FNV_OFFSET_LO == 40389
FNV_PRIME_HI == 256
FNV_PRIME_LO == 403
HALF == 65536

\* h ^= str.charCodeAt(i)
FnvXor(h, c) == [hi |-> h.hi, lo |-> XorBits(h.lo, c, 16)]

\* h = Math.imul(h, 16777619) >>> 0
FnvMul(h) ==
    LET p == h.lo * FNV_PRIME_LO IN
    [hi |-> (h.hi * FNV_PRIME_LO + h.lo * FNV_PRIME_HI + p \div HALF) % HALF,
     lo |-> p % HALF]

RECURSIVE FnvFrom(_, _, _)
FnvFrom(h, chars, i) ==
    IF i > Len(chars) THEN h
    ELSE FnvFrom(FnvMul(FnvXor(h, chars[i])), chars, i + 1)

\* fnv1aHash(str)
fnv1aHash(chars) == FnvFrom([hi |-> FNV_OFFSET_HI, lo |-> FNV_OFFSET_LO], chars, 1)

\* a.hash <= b.hash, a.hash < b.hash
HashLE(a, b) == a.hi < b.hi \/ (a.hi = b.hi /\ a.lo <= b.lo)
HashLT(a, b) == ~HashLE(b, a)

\* h % n of the hash read as a signed 32-bit integer (no >>> 0): the
\* remainder of a negative number is negative
HashMod_Signed(h, n) ==
    IF h.hi < HALF \div 2 THEN ((h.hi % n) * (HALF % n) + (h.lo % n)) % n
    ELSE 0 - ((((HALF - 1 - h.hi) % n) * (HALF % n) + ((HALF - h.lo) % n)) % n)

\* h % n
HashMod(h, n) == ((h.hi % n) * (HALF % n) + (h.lo % n)) % n

\* weights && weights.length === servers.length ? weights : servers.map(() => 1)
EnsureWeights(weights, srv) ==
    IF Len(weights) = Len(srv) THEN weights ELSE [i \in DOMAIN srv |-> 1]

\* the virtual nodes per server (VNODE, 100 in the code)
Vnodes == 2

\* the virtual nodes of a server list: << server, v >>, in the order of the pushes
VnodeIds(srv) == {<< srv[i], v >> : i \in DOMAIN srv, v \in 0..(Vnodes - 1)}

\* const key = `${server}#${v}`
VnodeKey(id) == StrChars(id[1]) \o << 35 >> \o DecimalChars(id[2])

RECURSIVE InsertSorted(_, _)
\* e goes behind every entry whose hash is <= its own: the sort is stable
InsertSorted(sorted, e) ==
    IF sorted = << >> THEN << e >>
    ELSE IF HashLE(sorted[Len(sorted)].hash, e.hash) THEN Append(sorted, e)
    ELSE Append(InsertSorted(SubSeq(sorted, 1, Len(sorted) - 1), e), sorted[Len(sorted)])

RECURSIVE SortRing(_, _)
\* ring.sort((a, b) => a.hash - b.hash) on the first n pushed entries
SortRing(pushed, n) ==
    IF n = 0 THEN << >> ELSE InsertSorted(SortRing(pushed, n - 1), pushed[n])

\* the ring of the server list srv under the hash function hashOf
BuildRing(srv, hashOf) ==
    LET pushed == [j \in 1..(Len(srv) * Vnodes) |->
                      LET i == ((j - 1) \div Vnodes) + 1
                          v == (j - 1) % Vnodes
                      IN  [hash |-> hashOf[<< srv[i], v >>], server |-> srv[i]]]
    IN  SortRing(pushed, Len(pushed))

\* fnv1aHash on the virtual node keys of srv
RealVhash(srv) == [id \in VnodeIds(srv) |-> fnv1aHash(VnodeKey(id))]

NoCall == [op |-> "none", target |-> "", key |-> [hi |-> 0, lo |-> 0]]

\* createLoadBalancer(strat, srv, weights), the ring hashed by hashOf
BalInit(strat, srv, weights, hashOf) ==
    /\ strategy = strat
    /\ servers = srv
    /\ ws = EnsureWeights(weights, srv)
    /\ idx = 0
    /\ current = [i \in DOMAIN srv |-> 0]
    /\ counts = [s \in {srv[i] : i \in DOMAIN srv} |-> 0]
    /\ vhash = hashOf
    /\ ring = BuildRing(srv, hashOf)
    /\ sel = NoCall
    /\ picks = << >>

\* the gateway: servers, strategy "round-robin", no weights
GATEWAY_SERVERS == << "A", "B", "C" >>

\* the executions of the fixed-window handler in progress: none
Workers == {1, 2}
Idle == [pc |-> "idle", key |-> "", time |-> 0, count |-> 0, windowStart |-> 0]
NoWorkers == [atomic |-> TRUE, at |-> [w \in Workers |-> Idle]]

\* the limiter modules as loaded: empty maps
LimInit ==
    /\ now = 0
    /\ fwClients = EmptyMap
    /\ swClients = EmptyMap
    /\ lbClients = EmptyMap
    /\ tbClients = EmptyMap
    /\ last = Observe("", 0, "none")
    /\ admitted = NoLogs
    /\ fullSince = NoTimes

Init ==
    /\ LimInit
    /\ BalInit("round-robin", GATEWAY_SERVERS, << >>, RealVhash(GATEWAY_SERVERS))
    /\ flights = << >>
    /\ workers = NoWorkers

\* the answer of a handler that found no client key: status 400, nothing touched
Reject400(t) ==
    /\ now' = t
    /\ last' = Observe("", t, "400")
    /\ UNCHANGED << fwClients, swClients, lbClients, tbClients, admitted, fullSince >>

\* the entries of the log s that are at most h ms older than t
Recent(s, t, h) == SelectSeq(s, LAMBDA ts : t - ts <= h)

\* the handler called next(): the call is logged; the log of a key keeps the
\* admissions of the last h ms before the key's latest call
Allow(k, t, h) ==
    /\ last' = Observe(k, t, "next")
    /\ admitted' = [admitted EXCEPT ![k] = Append(Recent(@, t, h), t)]

\* the handler answered 429
Deny(k, t, h) ==
    /\ last' = Observe(k, t, "429")
    /\ admitted' = [admitted EXCEPT ![k] = Recent(@, t, h)]

(***************************************************************************)
(* Fixed window (src/src/middleware/fixedWindow.ts)                        *)
(***************************************************************************)
WINDOW_SIZE_IN_MS == 60000
MAX_REQUESTS_PER_WINDOW == 5

FWExpired_AtBoundary(record, currentTime) ==
    currentTime - record.windowStart >= WINDOW_SIZE_IN_MS

FWExpired_Always(record, currentTime) == TRUE

FWExpired(record, currentTime) ==
    currentTime - record.windowStart > WINDOW_SIZE_IN_MS

FWHasRoom_OffByOne(record) == record.count <= MAX_REQUESTS_PER_WINDOW

FWHasRoom(record) == record.count < MAX_REQUESTS_PER_WINDOW

\* rateLimiter(req, res, next) with Date.now() = t
FWAdmit(req, t) ==
    LET clientIP == ClientKey(req) IN
    IF clientIP = "" THEN Reject400(t)
    ELSE
      /\ now' = t
      /\ UNCHANGED << swClients, lbClients, tbClients, fullSince >>
      /\ IF ~Has(fwClients, clientIP)
         THEN /\ fwClients' = MapSet(fwClients, clientIP, [count |-> 1, windowStart |-> t])
              /\ Allow(clientIP, t, WINDOW_SIZE_IN_MS)
         ELSE LET record == fwClients[clientIP] IN
              IF FWExpired(record, t)
              THEN /\ fwClients' = MapSet(fwClients, clientIP, [count |-> 1, windowStart |-> t])
                   /\ Allow(clientIP, t, WINDOW_SIZE_IN_MS)
              ELSE IF FWHasRoom(record)
              THEN /\ fwClients' = MapSet(fwClients, clientIP,
                                          [record EXCEPT !.count = @ + 1])
                   /\ Allow(clientIP, t, WINDOW_SIZE_IN_MS)
              ELSE /\ UNCHANGED fwClients
                   /\ Deny(clientIP, t, WINDOW_SIZE_IN_MS)

FWSteps == {0, 30000, 30001}
FWMaxNow == 90003

NextFW ==
    \E req \in Requests, d \in FWSteps :
        /\ now + d <= FWMaxNow
        /\ FWAdmit(req, now + d)
        /\ UNCHANGED << balVars, flights, workers >>

SpecFW == Init /\ [][NextFW]_vars

\* C1: a fixed-window call at time t for a key that has a record: if
\* t - windowStart > 60000 it is admitted and the record becomes count 1,
\* windowStart t; otherwise it is admitted with count + 1 iff count < 5, and
\* otherwise it is answered 429 with the record unchanged.
C1_FixedWindowAdmit ==
    [][\A k \in Keys :
          (last'.client = k /\ Has(fwClients, k)) =>
             LET r == fwClients[k]
                 t == last'.time
             IN  IF t - r.windowStart > WINDOW_SIZE_IN_MS
                 THEN /\ last'.outcome = "next"
                      /\ fwClients'[k] = [count |-> 1, windowStart |-> t]
                 ELSE IF r.count < MAX_REQUESTS_PER_WINDOW
                 THEN /\ last'.outcome = "next"
                      /\ fwClients'[k] = [count |-> r.count + 1,
                                          windowStart |-> r.windowStart]
                 ELSE /\ last'.outcome = "429"
                      /\ fwClients'[k] = r
      ]_vars

\* a full window was reset: the last call came later than windowStart + 60000
\* of a window that had admitted 5 calls, was admitted and left count 1
C1_Witness ==
    \E k \in Keys :
        /\ Has(fwClients, k)
        /\ last = Observe(k, fwClients[k].windowStart, "next")
        /\ fwClients[k].count = 1
        /\ Len(admitted[k]) = MAX_REQUESTS_PER_WINDOW
        /\ \A i \in 1..(MAX_REQUESTS_PER_WINDOW - 1) :
               admitted[k][i] < fwClients[k].windowStart

\* C2: every fixed-window record has 1 <= count <= 5, and at most 5 calls of
\* the key were admitted since the start of its current window.
C2_FixedWindowBound ==
    \A k \in Keys :
        Has(fwClients, k) =>
            /\ 1 <= fwClients[k].count
            /\ fwClients[k].count <= MAX_REQUESTS_PER_WINDOW
            /\ AdmittedSince(k, fwClients[k].windowStart)
                   <= MAX_REQUESTS_PER_WINDOW

\* the limit is reached and enforced: 5 admitted in the window, the 6th denied
C2_Witness ==
    \E k \in Keys :
        /\ Has(fwClients, k)
        /\ fwClients[k].count = MAX_REQUESTS_PER_WINDOW
        /\ last.client = k /\ last.outcome = "429"
        /\ AdmittedSince(k, fwClients[k].windowStart)
               = MAX_REQUESTS_PER_WINDOW

\* C10 (README, fixed window, as the claim states it): a key that sent 5
\* requests at one instant t1 ("0:59") is admitted again at a later instant
\* t2 of the next clock minute ("1:01"), less than 60000 ms after t1, so that
\* 10 requests are admitted in a span shorter than the window.
C10_EdgeBurstAdmitted ==
    \A k \in Keys :
        (/\ last.client = k
         /\ last.outcome \in {"next", "429"}
         /\ LET before == SelectSeq(admitted[k], LAMBDA ts : ts < last.time)
            IN  /\ Len(before) = MAX_REQUESTS_PER_WINDOW
                /\ \A i \in DOMAIN before : before[i] = before[1]
                /\ before[1] \div WINDOW_SIZE_IN_MS
                      < last.time \div WINDOW_SIZE_IN_MS)
        => last.outcome = "next"

(***************************************************************************)
(* Sliding window log (src/src/middleware/slidingWindow.ts, lines 1-41)    *)
(***************************************************************************)
WINDOW_SIZE == 5000
MAX_REQUESTS == 2

SWIsFresh_Open(ts, t) == t - ts < WINDOW_SIZE

\* the filter predicate: now - ts <= WINDOW_SIZE
SWIsFresh(ts, t) == t - ts <= WINDOW_SIZE

SWLimitReached_OffByOne(freshTimestamps) == Len(freshTimestamps) > MAX_REQUESTS

SWLimitReached(freshTimestamps) == Len(freshTimestamps) >= MAX_REQUESTS

\* slidingWindowLogRateLimiter(req, res, next) with Date.now() = t
SWAdmit(req, t) ==
    LET clientIP == ClientKey(req) IN
    IF clientIP = "" THEN Reject400(t)
    ELSE
      LET timestamps == IF Has(swClients, clientIP) THEN swClients[clientIP] ELSE << >>
          freshTimestamps == SelectSeq(timestamps, LAMBDA ts : SWIsFresh(ts, t))
      IN
      /\ now' = t
      /\ UNCHANGED << fwClients, lbClients, tbClients, fullSince >>
      /\ IF SWLimitReached(freshTimestamps)
         THEN /\ UNCHANGED swClients
              /\ Deny(clientIP, t, 2 * WINDOW_SIZE)
         ELSE /\ swClients' = MapSet(swClients, clientIP, Append(freshTimestamps, t))
              /\ Allow(clientIP, t, 2 * WINDOW_SIZE)

SWSteps == {0, 2500, 2600}
SWMaxNow == 10400

NextSW ==
    \E req \in Requests, d \in SWSteps :
        /\ now + d <= SWMaxNow
        /\ SWAdmit(req, now + d)
        /\ UNCHANGED << balVars, flights, workers >>

SpecSW == Init /\ [][NextSW]_vars

\* C3: a sliding-window call at time t is admitted iff fewer than 2 earlier
\* admitted calls of the key have a timestamp ts with t - ts <= 5000; when it
\* is admitted the stored log becomes those timestamps followed by t, and when
\* it is denied the stored log is unchanged.
C3_SlidingWindowAdmit ==
    [][\A k \in Keys :
          last'.client = k =>
             LET t == last'.time
                 fresh == SelectSeq(admitted[k], LAMBDA ts : t - ts <= WINDOW_SIZE)
             IN  /\ last'.outcome \in {"next", "429"}
                 /\ last'.outcome = "next" <=> Len(fresh) < MAX_REQUESTS
                 /\ last'.outcome = "next" => swClients'[k] = Append(fresh, t)
                 /\ last'.outcome = "429" => swClients' = swClients
      ]_vars

\* two calls were admitted at one instant t0 and the call just admitted came
\* later than t0 + 5000: the stored log holds that call alone
C3_Witness ==
    \E k \in Keys :
        /\ Has(swClients, k)
        /\ last.client = k /\ last.outcome = "next"
        /\ swClients[k] = << last.time >>
        /\ Len(admitted[k]) = MAX_REQUESTS + 1
        /\ admitted[k][1] = admitted[k][MAX_REQUESTS]
        /\ last.time - admitted[k][1] > WINDOW_SIZE

\* C4: for every key, any admitted calls whose timestamps lie in one closed
\* interval of length 5000 are at most 2.
C4_NoEdgeOfWindow ==
    \A k \in Keys :
        \A i \in DOMAIN admitted[k] : \A j \in DOMAIN admitted[k] :
            (i <= j /\ admitted[k][j] - admitted[k][i] <= WINDOW_SIZE)
                => j - i + 1 <= MAX_REQUESTS

\* the window slid: 2 calls admitted, a call denied exactly 5000 ms after the
\* first of them, i.e. at the closed end of the window
C4_Witness ==
    \E k \in Keys :
        /\ last.client = k /\ last.outcome = "429"
        /\ Len(admitted[k]) >= MAX_REQUESTS
        /\ last.time - admitted[k][Len(admitted[k]) - MAX_REQUESTS + 1] = WINDOW_SIZE

(***************************************************************************)
(* Token bucket (src/src/middleware/slidingWindow.ts, lines 85-132)        *)
(*                                                                         *)
(* tokens is a real number in the code.  REFILL_RATE is 0.5 tokens per     *)
(* second, i.e. one token per 2000 ms, and clock values are whole          *)
(* milliseconds, so every value tokens takes is a multiple of 1/2000.  The *)
(* model keeps tokens exactly, counted in 1/2000ths (the refill of 1 ms).  *)
(* For the clock steps of TBSteps (multiples of 1000 ms) the doubles of the *)
(* code are exact as well: ms/1000 and its half are dyadic fractions.      *)
(***************************************************************************)
MS_PER_TOKEN == 2000
TOKEN_BUCKET_CAPACITY == 5

\* a number of whole tokens in the unit of the model
Tokens(n) == n * MS_PER_TOKEN

\* bucket = { tokens: BUCKET_CAPACITY, lastRefill: now }
TBNewBucket_OneLess(t) == [tokens |-> Tokens(TOKEN_BUCKET_CAPACITY - 1), lastRefill |-> t]

TBNewBucket(t) == [tokens |-> Tokens(TOKEN_BUCKET_CAPACITY), lastRefill |-> t]

\* refills elapsedSeconds tokens, without the factor REFILL_RATE
TBRefill_RateDropped(bucket, t) ==
    Min(Tokens(TOKEN_BUCKET_CAPACITY), bucket.tokens + 2 * (t - bucket.lastRefill))

\* Math.min(BUCKET_CAPACITY, bucket.tokens + elapsedSeconds * REFILL_RATE)
TBRefill(bucket, t) ==
    Min(Tokens(TOKEN_BUCKET_CAPACITY), bucket.tokens + (t - bucket.lastRefill))

TBHasToken_Positive(tokens) == tokens > 0

\* bucket.tokens >= 1
TBHasToken(tokens) == tokens >= Tokens(1)

\* tokenBucketRateLimiter(req, res, next) with Date.now() = t; the log of
\* admitted calls keeps every call (horizon t reaches back to time 0)
TBAdmit(req, t) ==
    LET clientIP == ClientKey(req) IN
    IF clientIP = "" THEN Reject400(t)
    ELSE
      LET bucket == IF Has(tbClients, clientIP) THEN tbClients[clientIP]
                    ELSE TBNewBucket(t)
          refilled == TBRefill(bucket, t)
      IN
      /\ now' = t
      /\ UNCHANGED << fwClients, swClients, lbClients, fullSince >>
      /\ IF TBHasToken(refilled)
         THEN /\ tbClients' = MapSet(tbClients, clientIP,
                                     [tokens |-> refilled - Tokens(1), lastRefill |-> t])
              /\ Allow(clientIP, t, t)
         ELSE /\ tbClients' = MapSet(tbClients, clientIP,
                                     [tokens |-> refilled, lastRefill |-> t])
              /\ Deny(clientIP, t, t)

TBSteps == {0, 1000}
TBMaxNow == 3000

NextTB ==
    \E req \in Requests, d \in TBSteps :
        /\ now + d <= TBMaxNow
        /\ TBAdmit(req, now + d)
        /\ UNCHANGED << balVars, flights, workers >>

SpecTB == Init /\ [][NextTB]_vars

\* C5: for every key and every interval of T ms, the calls of the key admitted
\* inside the interval are at most capacity + T * refillRate / 1000, that is
\* 5 + T / 2000.
C5_TokenBucketRate ==
    \A k \in Keys :
        \A i \in DOMAIN admitted[k] : \A j \in DOMAIN admitted[k] :
            i <= j =>
                Tokens(j - i + 1) <=
                    Tokens(TOKEN_BUCKET_CAPACITY) + (admitted[k][j] - admitted[k][i])

\* the bound is met: a burst of 5 at one instant and a 6th admission 2000 ms
\* later, after a denied call
C5_Witness ==
    \E k \in Keys :
        /\ Len(admitted[k]) = TOKEN_BUCKET_CAPACITY + 1
        /\ admitted[k][TOKEN_BUCKET_CAPACITY] = admitted[k][1]
        /\ admitted[k][TOKEN_BUCKET_CAPACITY + 1] = admitted[k][1] + MS_PER_TOKEN
        /\ last.client = k /\ last.outcome = "429"

\* C6: after every token-bucket call the key's bucket has 0 <= tokens <= 5 and
\* lastRefill equal to the time of the call; a denied call leaves tokens at the
\* refilled value, which is below 1.
C6_TokenBucketState ==
    [][\A k \in Keys :
          last'.client = k =>
             LET t == last'.time
                 before == IF Has(tbClients, k) THEN tbClients[k]
                           ELSE [tokens |-> Tokens(TOKEN_BUCKET_CAPACITY),
                                 lastRefill |-> t]
                 refilled == Min(Tokens(TOKEN_BUCKET_CAPACITY),
                                 before.tokens + (t - before.lastRefill))
             IN  /\ Has(tbClients', k)
                 /\ 0 <= tbClients'[k].tokens
                 /\ tbClients'[k].tokens <= Tokens(TOKEN_BUCKET_CAPACITY)
                 /\ tbClients'[k].lastRefill = t
                 /\ last'.outcome = "429" =>
                       /\ tbClients'[k].tokens = refilled
                       /\ refilled < Tokens(1)
      ]_vars

\* a call was denied with half a token in the bucket, which it left there
C6_Witness ==
    \E k \in Keys :
        /\ Has(tbClients, k)
        /\ last = Observe(k, tbClients[k].lastRefill, "429")
        /\ tbClients[k].tokens > 0
        /\ tbClients[k].tokens < Tokens(1)

(***************************************************************************)
(* Leaky bucket (src/src/middleware/slidingWindow.ts, lines 43-83)         *)
(***************************************************************************)
LEAKY_BUCKET_CAPACITY == 5
LEAK_RATE == 1

\* bucket = { queue: 0, lastLeak: now }
LBNewBucket(t) == [queue |-> 0, lastLeak |-> t]

\* the elapsed time taken in milliseconds
LBLeaked_Millis(bucket, t) == (t - bucket.lastLeak) * LEAK_RATE

\* Math.floor(elapsedSeconds * LEAK_RATE), elapsedSeconds = (now - lastLeak) / 1000
LBLeaked(bucket, t) == ((t - bucket.lastLeak) * LEAK_RATE) \div 1000

LBHasRoom_OffByOne(queue) == queue <= LEAKY_BUCKET_CAPACITY

\* bucket.queue < BUCKET_CAPACITY
LBHasRoom(queue) == queue < LEAKY_BUCKET_CAPACITY

\* the time since which the bucket of a key has been full at each of its calls
LBFullSince(k, t, queueAfter, denied) ==
    IF queueAfter < LEAKY_BUCKET_CAPACITY THEN -1
    ELSE IF denied /\ fullSince[k] >= 0 THEN fullSince[k]
    ELSE t

\* leakyBucketRateLimiter(req, res, next) with Date.now() = t
LBAdmit(req, t) ==
    LET clientIP == ClientKey(req) IN
    IF clientIP = "" THEN Reject400(t)
    ELSE
      LET bucket == IF Has(lbClients, clientIP) THEN lbClients[clientIP]
                    ELSE LBNewBucket(t)
          queue == Max(0, bucket.queue - LBLeaked(bucket, t))
          horizon == 1000 \div LEAK_RATE
      IN
      /\ now' = t
      /\ UNCHANGED << fwClients, swClients, tbClients >>
      /\ IF LBHasRoom(queue)
         THEN /\ lbClients' = MapSet(lbClients, clientIP,
                                     [queue |-> queue + 1, lastLeak |-> t])
              /\ fullSince' = [fullSince EXCEPT
                                  ![clientIP] = LBFullSince(clientIP, t, queue + 1, FALSE)]
              /\ Allow(clientIP, t, horizon)
         ELSE /\ lbClients' = MapSet(lbClients, clientIP,
                                     [queue |-> queue, lastLeak |-> t])
              /\ fullSince' = [fullSince EXCEPT
                                  ![clientIP] = LBFullSince(clientIP, t, queue, TRUE)]
              /\ Deny(clientIP, t, horizon)

LBSteps == {0, 500, 1000}
LBMaxNow == 2000

NextLB ==
    \E req \in Requests, d \in LBSteps :
        /\ now + d <= LBMaxNow
        /\ LBAdmit(req, now + d)
        /\ UNCHANGED << balVars, flights, workers >>

SpecLB == Init /\ [][NextLB]_vars

\* C7: after every leaky-bucket call the key's bucket has 0 <= queue <= 5; an
\* admitted call leaves queue at the leaked value plus 1 and a denied call
\* leaves it at 5.
C7_LeakyBucketState ==
    [][\A k \in Keys :
          last'.client = k =>
             LET t == last'.time
                 before == IF Has(lbClients, k) THEN lbClients[k]
                           ELSE [queue |-> 0, lastLeak |-> t]
                 leaked == ((t - before.lastLeak) * LEAK_RATE) \div 1000
                 afterLeak == IF before.queue - leaked > 0
                              THEN before.queue - leaked ELSE 0
             IN  /\ Has(lbClients', k)
                 /\ 0 <= lbClients'[k].queue
                 /\ lbClients'[k].queue <= LEAKY_BUCKET_CAPACITY
                 /\ last'.outcome = "next" => lbClients'[k].queue = afterLeak + 1
                 /\ last'.outcome = "429" => lbClients'[k].queue = LEAKY_BUCKET_CAPACITY
      ]_vars

\* a full bucket leaked and the call that saw the leak was admitted and
\* filled it again: 6 admissions, the last one later than the 5th
C7_Witness ==
    \E k \in Keys :
        /\ Has(lbClients, k)
        /\ lbClients[k].queue = LEAKY_BUCKET_CAPACITY
        /\ last = Observe(k, lbClients[k].lastLeak, "next")
        /\ Len(admitted[k]) = LEAKY_BUCKET_CAPACITY + 1
        /\ admitted[k][LEAKY_BUCKET_CAPACITY] < last.time

\* C8 (README, leaky bucket: the queue drains at the constant LEAK_RATE): a
\* key whose bucket is full at time t is admitted on every call at a time
\* >= t + 1000, whatever calls it made in between; so a call is denied only
\* less than 1000 ms after the bucket became full.
C8_ConstantLeak ==
    \A k \in Keys :
        (last.client = k /\ last.outcome = "429")
            => (last.time - fullSince[k]) * LEAK_RATE < 1000

\* C9 (README, leaky bucket: no bursts): two calls of one key less than
\* 1000 ms (1 / LEAK_RATE seconds) apart are never both admitted.
C9_NoBurst ==
    \A k \in Keys :
        \A i \in DOMAIN admitted[k] : \A j \in DOMAIN admitted[k] :
            i < j => (admitted[k][j] - admitted[k][i]) * LEAK_RATE >= 1000

(***************************************************************************)
(* Load balancer (src/unnamed/part_000): pickTarget and release            *)
(***************************************************************************)
NServers == Len(servers)

UNDEFINED == "undefined"

\* servers[i] of the code, indices from 0: undefined outside the array
At(i) == IF i \in 0 .. NServers - 1 THEN servers[i + 1] ELSE UNDEFINED

\* const safeGet = (i) => servers[i % servers.length]
safeGet(i) == At(i % NServers)

\* the observation of a call
Called(op, target, key) == [op |-> op, target |-> target, key |-> key]

\* pickTarget returned target: the observations, and the state left as given
Picked(target, key, idx2, current2, counts2) ==
    /\ sel' = Called("select", target, key)
    /\ picks' = Append(picks, target)
    /\ idx' = idx2
    /\ current' = current2
    /\ counts' = counts2
    /\ UNCHANGED << strategy, servers, ws, vhash, ring >>

\* round-robin and the fallback: safeGet(idx), idx = (idx + 1) % servers.length
RRNextIdx_Stuck(i) == i % NServers

RRNextIdx(i) == (i + 1) % NServers

RRPick(key) == Picked(safeGet(idx), key, RRNextIdx(idx), current, counts)

\* random: servers[Math.floor(Math.random() * servers.length)], r the floor
RandomPick(key, r) == Picked(At(r), key, idx, current, counts)

RECURSIVE SumTo(_, _)
SumTo(w, n) == IF n = 0 THEN 0 ELSE w[n] + SumTo(w, n - 1)

RECURSIVE WRRScan(_, _, _)
\* for (let i = 1; i < n; i++) if (current[i] > current[best]) best = i
WRRScan(cur, best, i) ==
    IF i > Len(cur) THEN best
    ELSE WRRScan(cur, IF cur[i] > cur[best] THEN i ELSE best, i + 1)

WRRBest_First(cur) == 1

WRRBest_LastOfTies(cur) ==
    CHOOSE i \in DOMAIN cur : \A j \in DOMAIN cur : cur[j] < cur[i] \/ (cur[j] = cur[i] /\ j <= i)

WRRBest(cur) == WRRScan(cur, 1, 2)

WRRPick_NoSubtract(key) ==
    LET raised == [i \in DOMAIN current |-> current[i] + ws[i]]
    IN  Picked(servers[WRRBest(raised)], key, idx, raised, counts)

\* weighted-round-robin (smooth)
WRRPick(key) ==
    LET raised == [i \in DOMAIN current |-> current[i] + ws[i]]
        total == SumTo(ws, Len(ws))
        best == WRRBest(raised)
    IN  Picked(servers[best], key, idx, [raised EXCEPT ![best] = @ - total], counts)

\* counts.get(s) ?? 0
CountOf(s) == IF Has(counts, s) THEN counts[s] ELSE 0

RECURSIVE LCScan(_, _)
\* for (const s of servers) if (c < bestCount) best = s
LCScan(best, i) ==
    IF i > NServers THEN best
    ELSE LCScan(IF CountOf(servers[i]) < CountOf(best) THEN servers[i] ELSE best, i + 1)

LCBest_LastOfTies ==
    LET least == {i \in DOMAIN servers :
                     \A j \in DOMAIN servers : CountOf(servers[i]) <= CountOf(servers[j])}
    IN  servers[CHOOSE i \in least : \A j \in least : j <= i]

LCBest == LCScan(servers[1], 1)

\* least-connections
LCPick(key) ==
    LET best == LCBest
    IN  Picked(best, key, idx, current, MapSet(counts, best, CountOf(best) + 1))

\* ws[i] || 1
WeightOr1(i) == IF ws[i] = 0 THEN 1 ELSE ws[i]

\* c1 / w1 < c2 / w2
ScoreLess(c1, w1, c2, w2) ==
    IF (w1 > 0) = (w2 > 0) THEN c1 * w2 < c2 * w1 ELSE c1 * w2 > c2 * w1

RECURSIVE WLCScan(_, _)
\* for (let i = 1; i < servers.length; i++) if (score < bestScore) best = s;
\* best is kept as an index
WLCScan(best, i) ==
    IF i > NServers THEN best
    ELSE WLCScan(IF ScoreLess(CountOf(servers[i]), WeightOr1(i),
                              CountOf(servers[best]), WeightOr1(best))
                 THEN i ELSE best, i + 1)

WLCBest_Unweighted == LCBest

WLCBest == servers[WLCScan(1, 2)]

\* weighted-least-connections
WLCPick(key) ==
    LET best == WLCBest
    IN  Picked(best, key, idx, current, MapSet(counts, best, CountOf(best) + 1))

\* ip-hash: servers[h % servers.length]
IPHashPick(key) == Picked(At(HashMod(key, NServers)), key, idx, current, counts)

RECURSIVE CHSearch(_, _, _, _)
\* while (lo < hi) { mid = floor((lo + hi) / 2); ring[mid].hash >= h ? hi = mid : lo = mid + 1 }
CHSearch(rg, h, lo, hi) ==
    IF lo < hi
    THEN LET mid == (lo + hi) \div 2
         IN  IF HashLE(h, rg[mid + 1].hash) THEN CHSearch(rg, h, lo, mid)
             ELSE CHSearch(rg, h, mid + 1, hi)
    ELSE lo

\* the key hash placed by remainder on the ring entries
CHLookup_Modulo(rg, h) == rg[HashMod(h, Len(rg)) + 1].server

CHLookup_NoWrap(rg, h) ==
    IF HashLE(h, rg[1].hash) THEN rg[1].server
    ELSE rg[CHSearch(rg, h, 0, Len(rg) - 1) + 1].server

\* the ring lookup of consistent-hash on a non-empty ring
CHLookup(rg, h) ==
    IF HashLE(h, rg[1].hash) \/ HashLT(rg[Len(rg)].hash, h) THEN rg[1].server
    ELSE rg[CHSearch(rg, h, 0, Len(rg) - 1) + 1].server

\* consistent-hash
CHPick(key) ==
    Picked(IF Len(ring) = 0 THEN servers[1] ELSE CHLookup(ring, key),
           key, idx, current, counts)

\* const key = req.header("X-Client-ID") || req.ip || ""; fnv1aHash(key)
RequestHash(req) == fnv1aHash(StrChars(ClientKey(req)))

pickTarget_FallbackRandom(req, r) ==
    LET key == RequestHash(req) IN
    CASE strategy = "random" -> RandomPick(key, r)
      [] strategy = "round-robin" -> RRPick(key)
      [] strategy = "weighted-round-robin" -> WRRPick(key)
      [] strategy = "least-connections" -> LCPick(key)
      [] strategy = "weighted-least-connections" -> WLCPick(key)
      [] strategy = "ip-hash" -> IPHashPick(key)
      [] strategy = "consistent-hash" -> CHPick(key)
      [] OTHER -> RandomPick(key, r)

\* lb.pickTarget(req); r is the value Math.random() takes
pickTarget(req, r) ==
    LET key == RequestHash(req) IN
    CASE strategy = "random" -> RandomPick(key, r)
      [] strategy = "round-robin" -> RRPick(key)
      [] strategy = "weighted-round-robin" -> WRRPick(key)
      [] strategy = "least-connections" -> LCPick(key)
      [] strategy = "weighted-least-connections" -> WLCPick(key)
      [] strategy = "ip-hash" -> IPHashPick(key)
      [] strategy = "consistent-hash" -> CHPick(key)
      [] OTHER -> RRPick(key)

ReleaseCount_Unclamped(target) == (IF Has(counts, target) THEN counts[target] ELSE 1) - 1

\* Math.max(0, (counts.get(target) ?? 1) - 1)
ReleaseCount(target) == Max(0, (IF Has(counts, target) THEN counts[target] ELSE 1) - 1)

\* lb.release(target)
release(target) ==
    /\ sel' = Called("release", target, NoCall.key)
    /\ counts' = IF strategy \in {"least-connections", "weighted-least-connections"}
                 THEN MapSet(counts, target, ReleaseCount(target))
                 ELSE counts
    /\ UNCHANGED << strategy, servers, ws, idx, current, vhash, ring, picks >>

(***************************************************************************)
(* Any balancer under any sequence of pickTarget and release calls         *)
(***************************************************************************)
ServerLists == { << "A" >>, << "A", "B" >>, << "A", "B", "C" >> }
WeightInputs == { << >>, << 5, 1, 1 >>, << 1, 2, 3 >>, << 2, 1 >> }
UNKNOWN_TARGET == "X"
MaxPicks == 4

ServerSet == {servers[i] : i \in DOMAIN servers}

InitBal ==
    /\ LimInit
    /\ flights = << >>
    /\ workers = NoWorkers
    /\ \E strat \in Strategies \cup {"unknown"}, srv \in ServerLists, weights \in WeightInputs :
           BalInit(strat, srv, weights, RealVhash(srv))

\* a caller's pickTarget, the calls so far below bound
Select(bound) ==
    \E req \in Requests, r \in 0 .. NServers - 1 :
        /\ Len(picks) < bound
        /\ pickTarget(req, r)
        /\ UNCHANGED << limVars, flights, workers >>

\* a caller's release of one of targets
Release(targets) ==
    \E target \in targets :
        /\ release(target)
        /\ UNCHANGED << limVars, flights, workers >>

NextBal == Select(MaxPicks) \/ Release(ServerSet \cup {UNKNOWN_TARGET})

SpecBal == InitBal /\ [][NextBal]_vars

Counting == strategy \in {"least-connections", "weighted-least-connections"}

\* a step in which release(target) was called and pickTarget was not
ReleaseStep == picks' = picks /\ sel'.op = "release"

\* C13: the counters of least-connections and weighted-least-connections
\* are never negative, and a release there changes the counter of the
\* released target alone (to one less, or to 0 when it was 0 or the target
\* was never counted); a release of any other strategy changes nothing.
C13_ReleaseEffect ==
    /\ [](\A s \in DOMAIN counts : counts[s] >= 0)
    /\ [][ ReleaseStep =>
             /\ UNCHANGED << strategy, servers, ws, idx, current, vhash, ring >>
             /\ IF Counting
                THEN /\ DOMAIN counts' = DOMAIN counts \cup {sel'.target}
                     /\ \A s \in DOMAIN counts \ {sel'.target} : counts'[s] = counts[s]
                     /\ counts'[sel'.target] =
                            IF CountOf(sel'.target) > 0 THEN CountOf(sel'.target) - 1 ELSE 0
                ELSE counts' = counts ]_vars

\* a counting balancer that has picked, after a release of a target it never
\* counted
C13_Witness ==
    /\ Counting
    /\ Len(picks) >= 2
    /\ sel.op = "release"
    /\ sel.target = UNKNOWN_TARGET
    /\ counts[UNKNOWN_TARGET] = 0
    /\ \E s \in ServerSet : counts[s] = 0

\* C18: every pickTarget of every balancer built from a non-empty list,
\* whatever calls came before and whatever the request, can be taken and
\* has returned an element of the server list.
C18_SelectReturnsBackend ==
    /\ \A k \in DOMAIN picks : picks[k] \in ServerSet
    /\ sel.op = "select" => sel.target \in ServerSet
    /\ \A req \in Requests : \E r \in 0 .. NServers - 1 : ENABLED pickTarget(req, r)

\* the ip-hash balancer over three backends answered a request without
\* client identity after earlier picks
C18_Witness ==
    /\ strategy = "ip-hash"
    /\ Len(picks) >= 3
    /\ sel = Called("select", picks[Len(picks)], fnv1aHash(StrChars("")))
    /\ sel.target \in ServerSet
    /\ NServers = 3

\* C21: a balancer created under a name that is none of the seven strategies
\* answers its k-th pickTarget (k = 0, 1, ...) with servers[k mod n], as the
\* round robin does, can always be called, and its release changes nothing.
C21_FallbackIsRoundRobin ==
    /\ [](strategy \notin Strategies =>
            /\ \A k \in 0 .. Len(picks) - 1 : picks[k + 1] = servers[(k % NServers) + 1]
            /\ idx = Len(picks) % NServers
            /\ \A req \in Requests : ENABLED pickTarget(req, 0))
    /\ [][ (strategy \notin Strategies /\ ReleaseStep) =>
             UNCHANGED << strategy, servers, ws, idx, current, counts, vhash, ring, picks >> ]_vars

\* the fallback over [A, B, C] after four picks, the cursor wrapped, and a
\* release
C21_Witness ==
    /\ strategy \notin Strategies
    /\ picks = << "A", "B", "C", "A" >>
    /\ idx = 1
    /\ sel.op = "release"

(***************************************************************************)
(* The gateway (src/unnamed/part_002)                                      *)
(***************************************************************************)
SERVICE_PATH == "/service1"
Paths == {SERVICE_PATH, "/other"}

Routed_Always(outcome, path) == path = SERVICE_PATH

\* app.use(rateLimiter) comes first: the route handler of /service1 runs
\* when the limiter called next()
Routed(outcome, path) == outcome = "next" /\ path = SERVICE_PATH

Flight(target) == [target |-> target, phase |-> "proxying", releases |-> 0]

MaxFlights == 2
GWSteps == {0, 60001}
GWMaxNow == 60001

\* one request through the middleware chain, synchronously
GWRequest ==
    \E req \in Requests, path \in Paths, d \in GWSteps :
        /\ now + d <= GWMaxNow
        /\ Len(flights) < MaxFlights
        /\ FWAdmit(req, now + d)
        /\ IF Routed(last'.outcome, path)
           THEN /\ pickTarget(req, 0)
                /\ flights' = Append(flights, Flight(sel'.target))
           ELSE UNCHANGED << balVars, flights >>
        /\ UNCHANGED workers

\* the error callback of proxy.web: lb.release(target), then the 502 answer
GWProxyError ==
    \E i \in DOMAIN flights :
        /\ flights[i].phase = "proxying"
        /\ release(flights[i].target)
        /\ flights' = [flights EXCEPT ![i] = [@ EXCEPT !.phase = "failed",
                                                       !.releases = @ + 1]]
        /\ UNCHANGED << limVars, workers >>

\* res.on("finish"): lb.release(target), after the proxied answer or the 502
GWFinish ==
    \E i \in DOMAIN flights :
        /\ flights[i].phase \in {"proxying", "failed"}
        /\ release(flights[i].target)
        /\ flights' = [flights EXCEPT ![i] = [@ EXCEPT !.phase = "finished",
                                                       !.releases = @ + 1]]
        /\ UNCHANGED << limVars, workers >>

NextGW == GWRequest \/ GWProxyError \/ GWFinish

SpecGW == Init /\ [][NextGW]_vars

\* C11: a step of the gateway that calls pickTarget or starts proxying is the
\* step of a request the limiter admitted in that step (answered next(), its
\* admission logged at that time), and a step that answers 429 or 400 leaves
\* the balancer and the proxied requests as they were.
C11_LimiterBeforeBalancer ==
    [][ /\ (picks' # picks \/ Len(flights') > Len(flights)) =>
              /\ last'.outcome = "next"
              /\ last'.time = now'
              /\ Len(admitted'[last'.client]) > 0
              /\ admitted'[last'.client][Len(admitted'[last'.client])] = now'
        /\ (limVars' # limVars /\ last'.outcome \in {"429", "400"}) =>
              UNCHANGED << balVars, flights >> ]_vars

C11_Witness ==
    /\ last.outcome = "429"
    /\ Len(flights) = 1
    /\ Len(picks) = 1
    /\ flights[1].phase = "proxying"

\* C26: a routed request's target has been released at most once while the
\* request is in flight and exactly once when its response has finished.
C26_ReleasedOnce ==
    \A i \in DOMAIN flights :
        /\ flights[i].releases <= 1
        /\ flights[i].phase = "finished" => flights[i].releases = 1

(***************************************************************************)
(* The balancers that count active connections                             *)
(***************************************************************************)
MaxLCPicks == 8

InitLC ==
    /\ LimInit
    /\ flights = << >>
    /\ workers = NoWorkers
    /\ BalInit("least-connections", GATEWAY_SERVERS, << >>, RealVhash(GATEWAY_SERVERS))

NextLC == Select(MaxLCPicks) \/ Release(ServerSet)

SpecLC == InitLC /\ [][NextLC]_vars

\* the earliest backend of the list among those with the fewest active
\* connections
EarliestLeast ==
    LET least == {i \in DOMAIN servers :
                     \A j \in DOMAIN servers : CountOf(servers[i]) <= CountOf(servers[j])}
    IN  servers[CHOOSE i \in least : \A j \in least : i <= j]

\* C12: a least-connections pickTarget returns a backend whose counter is the
\* minimum, the earliest of the list among equal ones, and adds 1 to the
\* counter of that backend and to no other.
C12_LeastConnections ==
    [][ (strategy = "least-connections" /\ picks' # picks) =>
            /\ sel'.op = "select"
            /\ sel'.target = EarliestLeast
            /\ picks' = Append(picks, EarliestLeast)
            /\ counts' = [counts EXCEPT ![EarliestLeast] = @ + 1] ]_vars

\* {A: 3, B: 1, C: 2} answered B, B now 2
C12_Witness ==
    /\ strategy = "least-connections"
    /\ sel = Called("select", "B", sel.key)
    /\ counts["A"] = 3 /\ counts["B"] = 2 /\ counts["C"] = 2

MaxWLCPicks == 5
WLCWeights == { << 1, 2, 3 >>, << 5, 1, 1 >>, << 2, 2, 1 >> }

InitWLC ==
    /\ LimInit
    /\ flights = << >>
    /\ workers = NoWorkers
    /\ \E weights \in WLCWeights :
           BalInit("weighted-least-connections", GATEWAY_SERVERS, weights,
                   RealVhash(GATEWAY_SERVERS))

NextWLC == Select(MaxWLCPicks) \/ Release(ServerSet)

SpecWLC == InitWLC /\ [][NextWLC]_vars

\* the earliest backend of the list among those with the least
\* activeConnections / weight
EarliestLeastScore ==
    LET least == {i \in DOMAIN servers :
                     \A j \in DOMAIN servers :
                         CountOf(servers[i]) * ws[j] <= CountOf(servers[j]) * ws[i]}
    IN  servers[CHOOSE i \in least : \A j \in least : i <= j]

\* C17: a weighted-least-connections pickTarget returns the backend with the
\* least activeConnections / weight, the earliest of the list among equal
\* scores, and adds 1 to the counter of that backend and to no other.
C17_WeightedLeastConnections ==
    [][ (strategy = "weighted-least-connections" /\ picks' # picks) =>
            /\ sel'.op = "select"
            /\ sel'.target = EarliestLeastScore
            /\ picks' = Append(picks, EarliestLeastScore)
            /\ counts' = [counts EXCEPT ![EarliestLeastScore] = @ + 1] ]_vars

\* weights [1, 2, 3] with counts {A: 1, B: 1, C: 1} before: C (1/3) was
\* picked over B (1/2) and A (1/1)
C17_Witness ==
    /\ strategy = "weighted-least-connections"
    /\ ws = << 1, 2, 3 >>
    /\ sel.op = "select" /\ sel.target = "C"
    /\ counts["A"] = 1 /\ counts["B"] = 1 /\ counts["C"] = 2

(***************************************************************************)
(* The smooth weighted round robin                                         *)
(***************************************************************************)
MaxWRRPicks == 14
WRRWeights == { << 5, 1, 1 >>, << 1, 2, 3 >>, << 2, 2, 1 >>, << >> }

InitWRR ==
    /\ LimInit
    /\ flights = << >>
    /\ workers = NoWorkers
    /\ \E weights \in WRRWeights :
           BalInit("weighted-round-robin", GATEWAY_SERVERS, weights,
                   RealVhash(GATEWAY_SERVERS))

NextWRR == Select(MaxWRRPicks) \/ Release(ServerSet)

SpecWRR == InitWRR /\ [][NextWRR]_vars

TotalWeight == SumTo(ws, Len(ws))

\* how many of the picks from..to went to backend s
PicksOf(s, from, to) == Cardinality({j \in from .. to : picks[j] = s})

\* C14: of any sum(weights) consecutive picks of a weighted-round-robin
\* balancer created fresh, exactly weight_i went to backend i.
C14_WeightedShare ==
    strategy = "weighted-round-robin" =>
        \A start \in 1 .. Len(picks) - TotalWeight + 1 :
            \A i \in DOMAIN servers :
                PicksOf(servers[i], start, start + TotalWeight - 1) = ws[i]

\* weights [5, 1, 1]: two full cycles picked, so every window of 7 was seen
C14_Witness ==
    /\ strategy = "weighted-round-robin"
    /\ ws = << 5, 1, 1 >>
    /\ Len(picks) = 14
    /\ PicksOf("A", 4, 10) = 5 /\ PicksOf("B", 4, 10) = 1 /\ PicksOf("C", 4, 10) = 1

\* the running counter of backend i as a pick compares it: after the
\* increase by the weights
Running(i) == current[i] + ws[i]

\* a pickTarget step of the balancer with weights [5, 1, 1] right after a
\* pick of A
SecondPick ==
    /\ strategy = "weighted-round-robin"
    /\ ws = << 5, 1, 1 >>
    /\ picks' # picks
    /\ Len(picks) >= 1
    /\ picks[Len(picks)] = "A"

\* C15 as stated: right after a pick of A, when B or C has a lower running
\* counter than A, the pick is not A.
C15_NoRepeatWithLowerAlternative ==
    [][ (SecondPick /\ \E i \in {2, 3} : Running(i) < Running(1)) =>
            sel'.target # "A" ]_vars

\* C15: with weights [5, 1, 1], right after a pick of A the pick is A again
\* exactly when no other backend has a higher running counter than A, and
\* no five consecutive picks are all A.
C15_RepeatOnlyAtMaximum ==
    /\ [][ SecondPick =>
             (sel'.target = "A" <=> \A i \in {2, 3} : Running(i) <= Running(1)) ]_vars
    /\ []((strategy = "weighted-round-robin" /\ ws = << 5, 1, 1 >>) =>
             \A start \in 1 .. Len(picks) - 4 : PicksOf("A", start, start + 4) < 5)

\* A picked four times in a row across the end of a cycle, then B
C15_Witness ==
    /\ strategy = "weighted-round-robin"
    /\ ws = << 5, 1, 1 >>
    /\ Len(picks) >= 10
    /\ PicksOf("A", 6, 9) = 4
    /\ picks[10] = "B"

(***************************************************************************)
(* The round robin                                                         *)
(***************************************************************************)
MaxRRPicks == 7

InitRR ==
    /\ LimInit
    /\ flights = << >>
    /\ workers = NoWorkers
    /\ \E srv \in ServerLists :
           BalInit("round-robin", srv, << >>, RealVhash(srv))

NextRR == Select(MaxRRPicks) \/ Release(ServerSet \cup {UNKNOWN_TARGET})

SpecRR == InitRR /\ [][NextRR]_vars

\* C16: the k-th pickTarget (k = 0, 1, ...) of a round-robin balancer over n
\* backends returned servers[k mod n], whatever the requests were and
\* whatever releases came between.
C16_RoundRobinOrder ==
    strategy = "round-robin" =>
        \A k \in 0 .. Len(picks) - 1 : picks[k + 1] = servers[(k % NServers) + 1]

\* six calls over [A, B, C], then a release
C16_Witness ==
    /\ strategy = "round-robin"
    /\ picks = << "A", "B", "C", "A", "B", "C" >>
    /\ sel.op = "release"
    /\ idx = 0

(***************************************************************************)
(* The consistent-hash ring under any hash values of its virtual nodes     *)
(***************************************************************************)
SmallHash(n) == [hi |-> 0, lo |-> n]
\* hashes of virtual node keys; hashes of client keys below, at, between and
\* above them
RingHashes == {SmallHash(2), SmallHash(4), SmallHash(6)}
KeyHashes == {SmallHash(n) : n \in 1 .. 7}
CHServerLists == { << "A", "B" >>, << "A", "B", "C" >> }
MaxCHPicks == 1

InitCH ==
    /\ LimInit
    /\ flights = << >>
    /\ workers = NoWorkers
    /\ \E srv \in CHServerLists :
           \E hashOf \in [VnodeIds(srv) -> RingHashes] :
               BalInit("consistent-hash", srv, << >>, hashOf)

\* pickTarget of a request whose client key hashes to h
CHSelect ==
    \E h \in KeyHashes :
        /\ Len(picks) < MaxCHPicks
        /\ CHPick(h)
        /\ UNCHANGED << limVars, flights, workers >>

RECURSIVE Without(_, _)
\* the server list srv with backend x taken out
Without(srv, x) ==
    IF srv = << >> THEN << >>
    ELSE IF srv[1] = x THEN Without(Tail(srv), x)
    ELSE << srv[1] >> \o Without(Tail(srv), x)

\* createLoadBalancer("consistent-hash", servers without x): the balancer is
\* built anew, the hash of a virtual node key being what it was
CHRebuild ==
    \E x \in ServerSet :
        LET rest == Without(servers, x)
            hashOf == [id \in VnodeIds(rest) |-> vhash[id]]
        IN  /\ Len(rest) > 0
            /\ servers' = rest
            /\ ws' = EnsureWeights(<< >>, rest)
            /\ idx' = 0
            /\ current' = [i \in DOMAIN rest |-> 0]
            /\ counts' = [s \in {rest[i] : i \in DOMAIN rest} |-> 0]
            /\ vhash' = hashOf
            /\ ring' = BuildRing(rest, hashOf)
            /\ sel' = Called("rebuild", x, NoCall.key)
            /\ picks' = << >>
            /\ UNCHANGED << strategy, limVars, flights, workers >>

NextCH == CHSelect \/ CHRebuild

SpecCH == InitCH /\ [][NextCH]_vars

\* the ring entry a linear scan from the start finds for key hash h: the first
\* with a hash >= h, the first of all if there is none
LinearSuccessor(rg, h) ==
    LET at == {i \in DOMAIN rg : HashLE(h, rg[i].hash)}
    IN  IF at = {} THEN 1 ELSE CHOOSE i \in at : \A j \in at : i <= j

\* C19: the ring is sorted ascending by hash, and a consistent-hash
\* pickTarget returned the backend of the lowest-index ring entry whose hash
\* is >= the hash of the client key, the backend of the first entry when
\* there is none: what a linear scan finds.
C19_RingSuccessor ==
    /\ \A i \in 1 .. Len(ring) - 1 : HashLE(ring[i].hash, ring[i + 1].hash)
    /\ (strategy = "consistent-hash" /\ sel.op = "select") =>
           sel.target = ring[LinearSuccessor(ring, sel.key)].server

\* a key hash equal to a hash two entries of different backends share, not
\* the smallest of the ring, answered with the first of the two
C19_Witness ==
    /\ sel.op = "select"
    /\ \E i \in 2 .. Len(ring) - 1 :
           /\ ring[i].hash = sel.key
           /\ ring[i + 1].hash = sel.key
           /\ ring[i - 1].hash # sel.key
           /\ ring[i].server # ring[i + 1].server
           /\ sel.target = ring[i].server
           /\ sel.target # ring[1].server

\* C20: when the balancer is built anew without backend X, every key hash
\* the ring mapped to a backend other than X is mapped to that same backend
\* by the new ring.
C20_RingStability ==
    [][ (sel'.op = "rebuild" /\ servers' # servers) =>
            \A h \in KeyHashes :
                CHLookup(ring, h) # sel'.target =>
                    CHLookup(ring', h) = CHLookup(ring, h) ]_vars

\* a ring rebuilt without its first backend, whose two remaining backends
\* both own keys, on a ring where two backends share a hash
C20_Witness ==
    /\ sel.op = "rebuild"
    /\ sel.target = "A"
    /\ servers = << "B", "C" >>
    /\ \E h \in KeyHashes : CHLookup(ring, h) = "B"
    /\ \E h \in KeyHashes : CHLookup(ring, h) = "C"
    /\ \E i \in 1 .. Len(ring) - 1 :
           ring[i].hash = ring[i + 1].hash /\ ring[i].server # ring[i + 1].server

(***************************************************************************)
(* Any one of the four limiters mounted, two clients and callers without   *)
(* identity                                                                *)
(***************************************************************************)
LimSteps == {0, 1000}
LimMaxNow == 1000

\* the limiters whose handler has not been mounted hold no records
Unused(maps) == \A i \in DOMAIN maps : maps[i] = EmptyMap

LimFW ==
    \E req \in Requests, d \in LimSteps :
        /\ now + d <= LimMaxNow
        /\ Unused(<< swClients, lbClients, tbClients >>)
        /\ FWAdmit(req, now + d)
        /\ UNCHANGED << balVars, flights, workers >>

LimSW ==
    \E req \in Requests, d \in LimSteps :
        /\ now + d <= LimMaxNow
        /\ Unused(<< fwClients, lbClients, tbClients >>)
        /\ SWAdmit(req, now + d)
        /\ UNCHANGED << balVars, flights, workers >>

LimLB ==
    \E req \in Requests, d \in LimSteps :
        /\ now + d <= LimMaxNow
        /\ Unused(<< fwClients, swClients, tbClients >>)
        /\ LBAdmit(req, now + d)
        /\ UNCHANGED << balVars, flights, workers >>

LimTB ==
    \E req \in Requests, d \in LimSteps :
        /\ now + d <= LimMaxNow
        /\ Unused(<< fwClients, swClients, lbClients >>)
        /\ TBAdmit(req, now + d)
        /\ UNCHANGED << balVars, flights, workers >>

NextLim == LimFW \/ LimSW \/ LimLB \/ LimTB

SpecLim == Init /\ [][NextLim]_vars

\* the record of key k is in map after the step what it was before
SameRecord(before, after, k) ==
    /\ Has(before, k) <=> Has(after, k)
    /\ Has(before, k) => after[k] = before[k]

\* C22: a call of any of the four limiters for client key c leaves the record
\* of every other key, in every limiter's map, as it was; a call answered 400
\* (no key) leaves every record as it was.
C22_ClientIsolation ==
    [][ \A k \in Keys \ {last'.client} :
            /\ SameRecord(fwClients, fwClients', k)
            /\ SameRecord(swClients, swClients', k)
            /\ SameRecord(lbClients, lbClients', k)
            /\ SameRecord(tbClients, tbClients', k) ]_vars

\* client B denied by the leaky bucket while client A's bucket holds one call
C22_Witness ==
    /\ last = Observe("B", now, "429")
    /\ Has(lbClients, "A") /\ lbClients["A"].queue = 1
    /\ Has(lbClients, "B") /\ lbClients["B"].queue = LEAKY_BUCKET_CAPACITY

\* the identity the claim gives a request: the header value when there is
\* one, otherwise the network address, otherwise none
Identity(req) ==
    CASE req.header # "" -> req.header
      [] req.header = "" /\ req.ip # "" -> req.ip
      [] OTHER -> ""

\* the step is a call of one of the four handlers for req at time t
LimiterCall(req, t) ==
    FWAdmit(req, t) \/ SWAdmit(req, t) \/ LBAdmit(req, t) \/ TBAdmit(req, t)

\* C23: every limiter call keys the request by its X-Client-ID header when
\* that is non-empty, otherwise by its address; with neither it answers 400,
\* not next, and leaves every record as it was; with a key it never answers
\* 400.
C23_ClientKey ==
    [][ \A req \in Requests, d \in LimSteps :
            LimiterCall(req, now + d) =>
                /\ last'.client = Identity(req)
                /\ IF Identity(req) = ""
                   THEN /\ last'.outcome = "400"
                        /\ UNCHANGED << fwClients, swClients, lbClients, tbClients, admitted >>
                   ELSE /\ last'.outcome \in {"next", "429"}
                        /\ \/ Has(fwClients', Identity(req))
                           \/ Has(swClients', Identity(req))
                           \/ Has(lbClients', Identity(req))
                           \/ Has(tbClients', Identity(req)) ]_vars

\* a call without header and address answered 400 after client A was
\* admitted by the token bucket
C23_Witness ==
    /\ last = Observe("", now, "400")
    /\ now = 1000
    /\ Has(tbClients, "A")
    /\ ~Has(tbClients, "B")
    /\ Len(admitted["A"]) = 1

(***************************************************************************)
(* Token bucket: a burst, then a wait                                      *)
(***************************************************************************)
TBBurstSteps == {0, 1000, 2000}
TBBurstMaxNow == 2000

NextTBBurst ==
    \E req \in Requests, d \in TBBurstSteps :
        /\ now + d <= TBBurstMaxNow
        /\ TBAdmit(req, now + d)
        /\ UNCHANGED << balVars, flights, workers >>

SpecTBBurst == Init /\ [][NextTBBurst]_vars

\* the admissions of key k so far are n at the instant of its first call
\* followed by those of later
BurstAt(k, n, later) ==
    /\ Len(admitted[k]) = n + Len(later)
    /\ n > 0 => \A i \in 1 .. n : admitted[k][i] = admitted[k][1]
    /\ \A i \in 1 .. Len(later) : admitted[k][n + i] = admitted[k][1] + later[i]

\* the step is a token-bucket call of key k at time t
TBCall(k, t) == last'.client = k /\ now' = t /\ last'.time = t

\* C24: a new client's calls at one instant t0 are admitted up to the fifth
\* and denied from the sixth; when its next call comes at t0 + 2000 with none
\* in between, that call is admitted, and a call at t0 + 2000 after it is
\* denied.
C24_TokenBurstThenWait ==
    [][ \A k \in Keys :
          LET t0 == IF Has(tbClients, k) THEN admitted[k][1] ELSE now' IN
          /\ (TBCall(k, t0) /\ \E n \in 0 .. 6 : BurstAt(k, n, << >>)) =>
                (last'.outcome = "next" <=> Len(admitted[k]) < TOKEN_BUCKET_CAPACITY)
          /\ ( /\ TBCall(k, t0 + MS_PER_TOKEN)
               /\ BurstAt(k, TOKEN_BUCKET_CAPACITY, << >>)
               /\ Has(tbClients, k) /\ tbClients[k].lastRefill = t0 ) =>
                last'.outcome = "next"
          /\ ( /\ TBCall(k, t0 + MS_PER_TOKEN)
               /\ BurstAt(k, TOKEN_BUCKET_CAPACITY, << MS_PER_TOKEN >>)
               /\ Has(tbClients, k) /\ tbClients[k].lastRefill = t0 + MS_PER_TOKEN ) =>
                last'.outcome = "429" ]_vars

\* five admitted at 0, one admitted at 2000, the call after it denied
C24_Witness ==
    /\ BurstAt("A", TOKEN_BUCKET_CAPACITY, << MS_PER_TOKEN >>)
    /\ admitted["A"][1] = 0
    /\ last = Observe("A", MS_PER_TOKEN, "429")
    /\ tbClients["A"].tokens = 0

(***************************************************************************)
(* Leaky bucket: a burst, then a wait                                      *)
(***************************************************************************)
LBBurstSteps == {0, 500, 1000}
LBBurstMaxNow == 1000
MS_PER_LEAK == 1000 \div LEAK_RATE

NextLBBurst ==
    \E req \in Requests, d \in LBBurstSteps :
        /\ now + d <= LBBurstMaxNow
        /\ LBAdmit(req, now + d)
        /\ UNCHANGED << balVars, flights, workers >>

SpecLBBurst == Init /\ [][NextLBBurst]_vars

\* the step is a leaky-bucket call of key k at time t
LBCall(k, t) == last'.client = k /\ now' = t /\ last'.time = t

WorkerSteps == {0, 60001}
WorkerMaxNow == 60001
MaxWorkerLog == 6

InitWorkers ==
    /\ LimInit
    /\ BalInit("round-robin", GATEWAY_SERVERS, << >>, RealVhash(GATEWAY_SERVERS))
    /\ flights = << >>
    /\ \E atomic \in BOOLEAN : workers = [NoWorkers EXCEPT !.atomic = atomic]

\* rateLimiter run to its end in one step
WorkerAdmit ==
    \E req \in Requests, d \in WorkerSteps :
        /\ workers.atomic
        /\ now + d <= WorkerMaxNow
        /\ FWAdmit(req, now + d)
        /\ UNCHANGED << balVars, flights, workers >>

\* worker w runs rateLimiter up to const record = clients.get(clientIP) and
\* keeps what it read; a request without key is answered 400 at once
WorkerRead(w) ==
    \E req \in Requests, d \in WorkerSteps :
        LET clientIP == ClientKey(req)
            t == now + d
        IN  /\ ~workers.atomic
            /\ workers.at[w].pc = "idle"
            /\ t <= WorkerMaxNow
            /\ IF clientIP = ""
               THEN Reject400(t) /\ UNCHANGED workers
               ELSE /\ Len(admitted[clientIP]) < MaxWorkerLog
                    /\ now' = t
                    /\ workers' = [workers EXCEPT !.at[w] =
                           IF Has(fwClients, clientIP)
                           THEN [pc |-> "read", key |-> clientIP, time |-> t,
                                 count |-> fwClients[clientIP].count,
                                 windowStart |-> fwClients[clientIP].windowStart]
                           ELSE [pc |-> "read", key |-> clientIP, time |-> t,
                                 count |-> 0, windowStart |-> 0]]
                    /\ UNCHANGED << fwClients, swClients, lbClients, tbClients,
                                    last, admitted, fullSince >>
            /\ UNCHANGED << balVars, flights >>

\* worker w runs the rest of rateLimiter on what it read
WorkerWrite(w) ==
    LET mine == workers.at[w]
        record == [count |-> mine.count, windowStart |-> mine.windowStart]
        fresh == [count |-> 1, windowStart |-> mine.time]
    IN  /\ ~workers.atomic
        /\ mine.pc = "read"
        /\ IF mine.count = 0 \/ FWExpired(record, mine.time)
           THEN /\ fwClients' = MapSet(fwClients, mine.key, fresh)
                /\ Allow(mine.key, mine.time, WINDOW_SIZE_IN_MS)
           ELSE IF FWHasRoom(record)
           THEN /\ fwClients' = MapSet(fwClients, mine.key,
                                       [record EXCEPT !.count = @ + 1])
                /\ Allow(mine.key, mine.time, WINDOW_SIZE_IN_MS)
           ELSE /\ UNCHANGED fwClients
                /\ Deny(mine.key, mine.time, WINDOW_SIZE_IN_MS)
        /\ workers' = [workers EXCEPT !.at[w] = Idle]
        /\ UNCHANGED << now, swClients, lbClients, tbClients, fullSince, balVars, flights >>

NextWorkers ==
    \/ WorkerAdmit
    \/ \E w \in Workers : WorkerRead(w)
    \/ \E w \in Workers : WorkerWrite(w)

SpecWorkers == InitWorkers /\ [][NextWorkers]_vars

\* C27: when every call of the fixed-window handler runs as one step, no
\* interleaving of the calls admits more than 5 calls of a key since the
\* start of its window (when the calls are split at the read, a state with
\* more is reached: C27_Witness).
C27_AtomicAdmitBound ==
    workers.atomic =>
        \A k \in Keys :
            Has(fwClients, k) =>
                /\ fwClients[k].count <= MAX_REQUESTS_PER_WINDOW
                /\ AdmittedSince(k, fwClients[k].windowStart) <= MAX_REQUESTS_PER_WINDOW
                /\ Len(admitted[k]) <= MAX_REQUESTS_PER_WINDOW

\* the lost update: both workers read count 4 of client A, both wrote 5, and
\* six calls of the window were admitted
C27_Witness ==
    /\ ~workers.atomic
    /\ \A w \in Workers : workers.at[w].pc = "idle"
    /\ Has(fwClients, "A")
    /\ fwClients["A"].count = MAX_REQUESTS_PER_WINDOW
    /\ AdmittedSince("A", fwClients["A"].windowStart) = MAX_REQUESTS_PER_WINDOW + 1
    /\ last = Observe("A", now, "next")

\* the lowest index among the backends whose running counter is the maximum
FirstMaximum ==
    CHOOSE i \in DOMAIN servers :
        \A j \in DOMAIN servers :
            Running(j) < Running(i) \/ (Running(j) = Running(i) /\ i <= j)

\* C28: after every pickTarget of the smooth weighted round robin the running
\* counters sum to 0; each pickTarget adds its weight to every counter,
\* returns the lowest-index backend holding the maximum and takes
\* sum(weights) from that backend's counter alone.
C28_CountersBalanced ==
    /\ [](strategy = "weighted-round-robin" => SumTo(current, Len(current)) = 0)
    /\ [][ (strategy = "weighted-round-robin" /\ picks' # picks) =>
             /\ sel'.target = servers[FirstMaximum]
             /\ current' = [i \in DOMAIN current |->
                               IF i = FirstMaximum THEN Running(i) - TotalWeight
                               ELSE Running(i)] ]_vars

\* weights [2, 2, 1]: A and B tie at 3 on the fourth pick, A is returned
C28_Witness ==
    /\ strategy = "weighted-round-robin"
    /\ ws = << 2, 2, 1 >>
    /\ Len(picks) = 4
    /\ picks[4] = "A"
    /\ current[1] + TotalWeight - ws[1] = current[2] - ws[2]
    /\ SumTo(current, Len(current)) = 0

(***************************************************************************)
(* Leaky bucket under a wall clock that may step backwards between calls   *)
(***************************************************************************)
LBClockSteps == {0 - 500, 0, 500}
LBClockMaxNow == 500

\* every bucket is within its capacity
LBWithinCapacity ==
    \A k \in Keys :
        Has(lbClients, k) =>
            0 <= lbClients[k].queue /\ lbClients[k].queue <= LEAKY_BUCKET_CAPACITY

\* a call at whatever Date.now() returns; no further call is followed once a
\* bucket is beyond its capacity
NextLBClock ==
    \E req \in Requests, d \in LBClockSteps :
        /\ LBWithinCapacity
        /\ 0 <= now + d
        /\ now + d <= LBClockMaxNow
        /\ LBAdmit(req, now + d)
        /\ UNCHANGED << balVars, flights, workers >>

SpecLBClock == Init /\ [][NextLBClock]_vars

\* C29: 0 <= queue <= 5 for every bucket after every sequence of calls,
\* whatever times the calls read, times before the stored lastLeak included.
C29_QueueBoundAnyClock ==
    \A k \in Keys :
        Has(lbClients, k) =>
            /\ 0 <= lbClients[k].queue
            /\ lbClients[k].queue <= LEAKY_BUCKET_CAPACITY


====
